---- MODULE Spec2Model ----
(***************************************************************************)
(* Model of pyBiodatafuse's graph generator                                *)
(* (src/src/pyBiodatafuse/graph/generator.py): generate_networkx_graph and *)
(* the per-source builders it dispatches to, over a networkx MultiDiGraph. *)
(*                                                                         *)
(* Python values are modelled as strings; the two missing-value scalars    *)
(* are None and NaN.  A dict is a function from its keys.  The graph keeps *)
(* its nodes in insertion order (order), each node's attribute dict (node) *)
(* and, per ordered node pair, the list of its parallel edges' attribute   *)
(* dicts (adj); the position of an edge in that list is its key.           *)
(***************************************************************************)
EXTENDS Naturals, Sequences, FiniteSets, TLC

VARIABLES fuse_df, drug_disease, g, pc, idx, row, gene_node_label, ak, err

vars == <<fuse_df, drug_disease, g, pc, idx, row, gene_node_label, ak, err>>

----------------------------------------------------------------------------
(* Bounds of the model *)

\* Most rows of the main table.
MaxRows == 2
\* Most records in one cell's list.
MaxRecs == 2
\* Most annotation cells of one input: rows times columns of the main table,
\* plus the rows of the drug-disease table.
MaxCells == 2
\* Most rows of the drug-disease table.
MaxDdRows == 1

----------------------------------------------------------------------------
(* Python values *)

None == "None"
NaN == "NaN"
Unbound == "<unbound>"
NoError == ""

\* pd.isna on a scalar: None and NaN are both missing.
isna(v) == v \in {None, NaN}

\* dict.items() as a frozenset.
Items(d) == {<<k, d[k]>> : k \in DOMAIN d}

\* hash(frozenset(edge_attrs.items())): a function of the set of items alone;
\* equal item sets hash equal, and the item sets of one run are taken to
\* hash apart (a 64-bit hash), so the identity is the item set.
edge_hash_of(edge_attrs) == Items(edge_attrs)

\* {key: value} when cond, {} otherwise.
OptionalAttr(cond, key, value) == IF cond THEN key :> value ELSE <<>>

----------------------------------------------------------------------------
(* networkx.MultiDiGraph.  R is a graph together with the exception raised  *)
(* so far (NoError when none): once raised, nothing more is done.           *)

EmptyGraph == [order |-> <<>>, node |-> <<>>, adj |-> <<>>]

Ok(graph) == [g |-> graph, err |-> NoError]

Raise(R, e) == IF R.err = NoError THEN [R EXCEPT !.err = e] ELSE R

\* A node that add_edge meets for the first time: created with no attributes;
\* None cannot be a node.
TouchNode(R, n) ==
    IF R.err # NoError \/ n \in DOMAIN R.g.node THEN R
    ELSE IF n = None THEN Raise(R, "ValueError")
    ELSE [R EXCEPT !.g.node = (n :> <<>>) @@ @, !.g.order = Append(@, n)]

\* (faulty variant) a node that is already there is refused.
add_node_refusing_known(R, n, attrs) ==
    IF R.err # NoError THEN R
    ELSE IF n \in DOMAIN R.g.node \/ n = None THEN Raise(R, "ValueError")
    ELSE [R EXCEPT !.g.node = (n :> ("attr_dict" :> attrs)) @@ @,
                   !.g.order = Append(@, n)]

\* g.add_node(n, attr_dict=attrs): the keyword becomes the node attribute
\* "attr_dict", set on a new node and overwritten on an existing one.
add_node(R, n, attrs) ==
    IF R.err # NoError THEN R
    ELSE IF n \in DOMAIN R.g.node
         THEN [R EXCEPT !.g.node[n] = ("attr_dict" :> attrs) @@ @]
         ELSE IF n = None THEN Raise(R, "ValueError")
         ELSE [R EXCEPT !.g.node = (n :> ("attr_dict" :> attrs)) @@ @,
                        !.g.order = Append(@, n)]

\* g.get_edge_data(u, v), with None replaced by {}: key -> attribute dict.
get_edge_data(graph, u, v) ==
    IF <<u, v>> \in DOMAIN graph.adj THEN graph.adj[<<u, v>>] ELSE <<>>

\* (faulty variant) the pair is looked up the other way round.
has_edge_reversed(graph, u, v) == <<v, u>> \in DOMAIN graph.adj

\* g.has_edge(u, v)
has_edge(graph, u, v) == <<u, v>> \in DOMAIN graph.adj

\* (faulty variant) the graph keeps one edge per pair, as a DiGraph does.
add_edge_replacing(R, u, v, label, attrs) ==
    LET R1 == TouchNode(TouchNode(R, u), v)
        data == ("label" :> label) @@ ("attr_dict" :> attrs)
    IN  IF R1.err # NoError THEN R1
        ELSE [R1 EXCEPT !.g.adj = (<<u, v>> :> <<data>>) @@ @]

\* g.add_edge(u, v, label=label, attr_dict=attrs): always a new parallel edge.
add_edge(R, u, v, label, attrs) ==
    LET R1 == TouchNode(TouchNode(R, u), v)
        data == ("label" :> label) @@ ("attr_dict" :> attrs)
    IN  IF R1.err # NoError THEN R1
        ELSE [R1 EXCEPT !.g.adj =
                 (<<u, v>> :> Append(get_edge_data(R1.g, u, v), data)) @@ @]

\* (faulty variant) the hash is looked for among the edges into v from any node.
node_exists_from_any(graph, u, v, edge_hash) ==
    {e \in DOMAIN graph.adj :
        /\ e[2] = v
        /\ \E x \in DOMAIN graph.adj[e] :
              graph.adj[e][x]["attr_dict"]["edge_hash"] = edge_hash}

\* node_exists: the keys of the parallel edges u -> v carrying edge_hash.
node_exists(graph, u, v, edge_hash) ==
    LET edge_data == get_edge_data(graph, u, v)
    IN  {x \in DOMAIN edge_data : edge_data[x]["attr_dict"]["edge_hash"] = edge_hash}

\* (faulty variant) the edge is added whether or not its hash is already there.
AddEdgeAlways(R, u, v, label, edge_attrs) ==
    IF R.err # NoError THEN R
    ELSE add_edge(R, u, v, label, ("edge_hash" :> edge_hash_of(edge_attrs)) @@ edge_attrs)

\* The tail every hash-deduplicating builder shares: hash the attributes,
\* store the hash in them, and add the edge unless one with that hash exists.
AddEdgeUnlessHashed(R, u, v, label, edge_attrs) ==
    LET edge_hash == edge_hash_of(edge_attrs)
        stored == ("edge_hash" :> edge_hash) @@ edge_attrs
    IN  IF R.err # NoError THEN R
        ELSE IF node_exists(R.g, u, v, edge_hash) = {}
             THEN add_edge(R, u, v, label, stored)
             ELSE R

\* for rec in annot_list: R := Step(R, gene_node_label, rec)
RECURSIVE ForEach(_, _, _, _)
ForEach(Step(_, _, _), R, gene, annot_list) ==
    IF annot_list = <<>> \/ R.err # NoError THEN R
    ELSE ForEach(Step, Step(R, gene, Head(annot_list)), gene, Tail(annot_list))

----------------------------------------------------------------------------
(* The source builders: one step per record, then the loop over the list.  *)

disgenet_record(R, gene_node_label_, dg) ==
    IF isna(dg["disease_name"]) THEN R
    ELSE
    LET dg_node_label == dg["disease_name"]
        dg_node_attrs ==
            [source |-> "DisGeNET", name |-> dg["disease_name"],
             id |-> dg["diseaseid"], labels |-> "Disease",
             disease_id |-> dg["diseaseid"],
             disease_class |-> dg["disease_class"],
             disease_class_name |-> dg["disease_class_name"],
             disease_type |-> dg["disease_type"],
             disease_semantic_type |-> dg["disease_semantic_type"]]
        edge_attrs ==
            [source |-> "DisGeNET", label |-> "associated_with",
             score |-> dg["score"],
             year_initial |-> IF ~isna(dg["year_initial"]) THEN dg["year_initial"] ELSE "",
             year_final |-> IF ~isna(dg["year_final"]) THEN dg["year_final"] ELSE "",
             ei |-> IF ~isna(dg["ei"]) THEN dg["ei"] ELSE "",
             el |-> IF ~isna(dg["el"]) THEN dg["el"] ELSE ""]
    IN  AddEdgeUnlessHashed(add_node(R, dg_node_label, dg_node_attrs),
                            gene_node_label_, dg_node_label, "associated_with", edge_attrs)

add_disgenet_disease_subgraph(graph, gene_node_label_, annot_list) ==
    ForEach(disgenet_record, Ok(graph), gene_node_label_, annot_list)

location_record(R, gene_node_label_, loc) ==
    IF isna(loc["location"]) \/ isna(loc["subcellular_loc"]) THEN R
    ELSE
    LET loc_node_label == loc["location"]
        loc_node_attrs ==
            [source |-> "OpenTargets", name |-> loc["location"],
             id |-> loc["loc_identifier"], labels |-> "Location",
             subcellular_loc |-> loc["subcellular_loc"]]
        edge_attrs == [source |-> "OpenTargets", label |-> "localized_in"]
    IN  AddEdgeUnlessHashed(add_node(R, loc_node_label, loc_node_attrs),
                            gene_node_label_, loc_node_label, "localized_in", edge_attrs)

add_opentargets_location_subgraph(graph, gene_node_label_, annot_list) ==
    ForEach(location_record, Ok(graph), gene_node_label_, annot_list)

\* No test of go_name: every record is taken.
go_record(R, gene_node_label_, go) ==
    LET go_node_label == go["go_name"]
        go_node_attrs ==
            [source |-> "OpenTargets", name |-> go["go_name"],
             id |-> go["go_id"], labels |-> "GO"]
        edge_attrs == [source |-> "OpenTargets", label |-> "part_of_go"]
    IN  AddEdgeUnlessHashed(add_node(R, go_node_label, go_node_attrs),
                            gene_node_label_, go_node_label, "part_of_go", edge_attrs)

add_opentargets_go_subgraph(graph, gene_node_label_, annot_list) ==
    ForEach(go_record, Ok(graph), gene_node_label_, annot_list)

\* Tested on pathway_id, labelled by pathway_name.
reactome_record(R, gene_node_label_, pathway) ==
    IF isna(pathway["pathway_id"]) THEN R
    ELSE
    LET pathway_node_label == pathway["pathway_name"]
        pathway_node_attrs ==
            [source |-> "OpenTargets", name |-> pathway["pathway_name"],
             id |-> pathway["pathway_id"], labels |-> "Pathway"]
        edge_attrs == [source |-> "OpenTargets", label |-> "part_of_pathway"]
    IN  AddEdgeUnlessHashed(add_node(R, pathway_node_label, pathway_node_attrs),
                            gene_node_label_, pathway_node_label, "part_of_pathway", edge_attrs)

add_opentargets_pathway_subgraph(graph, gene_node_label_, annot_list) ==
    ForEach(reactome_record, Ok(graph), gene_node_label_, annot_list)

\* The edge runs from the drug to the gene, labelled by the record's relation.
drug_record(R, gene_node_label_, drug) ==
    IF isna(drug["relation"]) THEN R
    ELSE
    LET drug_node_label == drug["drug_name"]
        drug_node_attrs ==
            [source |-> "OpenTargets", name |-> drug["drug_name"],
             id |-> drug["chembl_id"], labels |-> "Compound", is_a_drug |-> "True"]
        edge_attrs == [source |-> "OpenTargets", label |-> drug["relation"]]
    IN  AddEdgeUnlessHashed(add_node(R, drug_node_label, drug_node_attrs),
                            drug_node_label, gene_node_label_, drug["relation"], edge_attrs)

add_opentargets_drug_subgraph(graph, gene_node_label_, annot_list) ==
    ForEach(drug_record, Ok(graph), gene_node_label_, annot_list)

opentargets_disease_record(R, gene_node_label_, dg) ==
    IF isna(dg["disease_name"]) THEN R
    ELSE
    LET dg_node_label == dg["disease_name"]
        dg_node_attrs ==
            [source |-> "OpenTargets", name |-> dg["disease_name"],
             id |-> dg["disease_id"], labels |-> "Disease",
             therapeutic_areas |-> dg["therapeutic_areas"]]
        edge_attrs == [source |-> "OpenTargets", label |-> "associated_with"]
    IN  AddEdgeUnlessHashed(add_node(R, dg_node_label, dg_node_attrs),
                            gene_node_label_, dg_node_label, "associated_with", edge_attrs)

add_opentargets_disease_subgraph(graph, gene_node_label_, annot_list) ==
    ForEach(opentargets_disease_record, Ok(graph), gene_node_label_, annot_list)

wikipathways_record(R, gene_node_label_, pathway) ==
    IF isna(pathway["pathwayLabel"]) THEN R
    ELSE
    LET pathway_node_label == pathway["pathwayLabel"]
        pathway_node_attrs ==
            [source |-> "WikiPathways", name |-> pathway["pathwayLabel"],
             id |-> pathway["pathwayId"], labels |-> "Pathway",
             gene_count |-> pathway["pathwayGeneCount"]]
        edge_attrs == [source |-> "WikiPathways", label |-> "part_of_pathway"]
    IN  AddEdgeUnlessHashed(add_node(R, pathway_node_label, pathway_node_attrs),
                            gene_node_label_, pathway_node_label, "part_of_pathway", edge_attrs)

add_wikipathways_subgraph(graph, gene_node_label_, annot_list) ==
    ForEach(wikipathways_record, Ok(graph), gene_node_label_, annot_list)

\* No node is added: add_edge creates a missing endpoint without attributes.
ppi_record(R, gene_node_label_, ppi) ==
    LET edge_attrs ==
            [source |-> "STRING", label |-> "interacts_with", score |-> ppi["score"]]
    IN  AddEdgeUnlessHashed(R, gene_node_label_, ppi["stringdb_link_to"],
                            "interacts_with", edge_attrs)

add_ppi_subgraph(graph, gene_node_label_, annot_list) ==
    ForEach(ppi_record, Ok(graph), gene_node_label_, annot_list)

\* The references are written into the node's dict after add_node stored it:
\* the stored dict is that same dict, so the node carries them.
molmedb_record(R, gene_node_label_, inhibitor) ==
    IF isna(inhibitor["InChIKey"]) THEN R
    ELSE
    LET inhibitor_node_label == inhibitor["label"]
        inhibitor_node_attrs ==
            OptionalAttr(~isna(inhibitor["source_pmid"]), "reference_pmid",
                         inhibitor["source_pmid"])
            @@ OptionalAttr(~isna(inhibitor["source_doi"]), "reference_doi",
                            inhibitor["source_doi"])
            @@ OptionalAttr(~isna(inhibitor["drugbank_id"]), "DrugBank_id",
                            inhibitor["drugbank_id"])
            @@ OptionalAttr(~isna(inhibitor["chebi_id"]), "ChEBI_id", inhibitor["chebi_id"])
            @@ OptionalAttr(~isna(inhibitor["pubchem_compound_id"]), "PubChem_compound_id",
                            inhibitor["pubchem_compound_id"])
            @@ OptionalAttr(~isna(inhibitor["SMILES"]), "SMILES", inhibitor["SMILES"])
            @@ [source |-> "MolMeDB", id |-> inhibitor["molmedb_id"],
                name |-> inhibitor["label"], InChIKey |-> inhibitor["InChIKey"],
                MolMeDB_id |-> inhibitor["molmedb_id"], labels |-> "Compound"]
        edge_attrs == [source |-> "MolMeDB", label |-> "inhibits"]
    IN  AddEdgeUnlessHashed(add_node(R, inhibitor_node_label, inhibitor_node_attrs),
                            gene_node_label_, inhibitor_node_label, "inhibits", edge_attrs)

add_molmedb_gene_inhibitor(graph, gene_node_label_, annot_list) ==
    ForEach(molmedb_record, Ok(graph), gene_node_label_, annot_list)

\* confidence_level is read from annot["drugbank_id"], a KeyError on a record
\* without that field.
bgee_record(R, gene_node_label_, annot) ==
    IF isna(annot["anatomical_entity_name"]) THEN R
    ELSE IF ~isna(annot["confidence_level"]) /\ "drugbank_id" \notin DOMAIN annot
         THEN Raise(R, "KeyError")
    ELSE
    LET annot_node_label == annot["anatomical_entity_name"]
        annot_node_attrs ==
            OptionalAttr(~isna(annot["confidence_level"]), "confidence_level",
                         annot["drugbank_id"])
            @@ OptionalAttr(~isna(annot["expression_level"]), "expression_level",
                            annot["expression_level"])
            @@ OptionalAttr(~isna(annot["developmental_stage_name"]),
                            "developmental_stage_name", annot["developmental_stage_name"])
            @@ OptionalAttr(~isna(annot["developmental_stage_id"]),
                            "developmental_stage_id", annot["developmental_stage_id"])
            @@ [source |-> "Bgee", name |-> annot["anatomical_entity_name"],
                id |-> annot["anatomical_entity_id"], labels |-> "Anatomical Entity",
                anatomical_entity_id |-> annot["anatomical_entity_id"],
                anatomical_entity_name |-> annot["anatomical_entity_name"]]
        edge_attrs == [source |-> "Bgee", label |-> "expressed_in"]
    IN  AddEdgeUnlessHashed(add_node(R, annot_node_label, annot_node_attrs),
                            gene_node_label_, annot_node_label, "expressed_in", edge_attrs)

add_bgee_subgraph(graph, gene_node_label_, annot_list) ==
    ForEach(bgee_record, Ok(graph), gene_node_label_, annot_list)

\* The hashed attributes hold "type", not "label"; the edge's own label is
\* still part_of_pathway.
minerva_record(R, gene_node_label_, pathway) ==
    IF isna(pathway["pathwayLabel"]) THEN R
    ELSE
    LET pathway_node_label == pathway["pathwayLabel"]
        pathway_node_attrs ==
            [source |-> "MINERVA", name |-> pathway["pathwayLabel"],
             id |-> pathway["pathwayId"], labels |-> "pathway",
             gene_count |-> pathway["pathwayGeneCount"]]
        edge_attrs == [source |-> "MINERVA", type |-> "part_of_pathway"]
    IN  AddEdgeUnlessHashed(add_node(R, pathway_node_label, pathway_node_attrs),
                            gene_node_label_, pathway_node_label, "part_of_pathway", edge_attrs)

add_minerva_subgraph(graph, gene_node_label_, annot_list) ==
    ForEach(minerva_record, Ok(graph), gene_node_label_, annot_list)

\* Disease -> gene; added only when the pair has no edge at all.
drug_disease_record(R, gene_node_label_2, ddi) ==
    LET edge_attrs == [source |-> "OpenTargets", type |-> "treated_with"]
        stored == ("edge_hash" :> edge_hash_of(edge_attrs)) @@ edge_attrs
    IN  IF R.err # NoError THEN R
        ELSE IF ~has_edge(R.g, ddi["umls"], gene_node_label_2)
             THEN add_edge(R, ddi["umls"], gene_node_label_2, "treated_with", stored)
             ELSE R

add_drug_disease_subgraph(graph, gene_node_label_2, annot_list) ==
    ForEach(drug_disease_record, Ok(graph), gene_node_label_2, annot_list)

----------------------------------------------------------------------------
(* The inputs: a table is its column names and its rows; a row maps every  *)
(* column to its value.  A cell of an annotation column is a list of       *)
(* records (kind "list") or something else: None, a NaN float, a non-empty *)
(* string or a non-empty mapping.                                          *)

ListCell(items) == [kind |-> "list", items |-> items]
NonListCell(kind) == [kind |-> kind, items |-> <<>>]
NonListKinds == {"None", "NaN", "str", "dict"}

disgenet(name, score) ==
    [disease_name |-> name, diseaseid |-> "C0001", disease_class |-> "C04",
     disease_class_name |-> "Neoplasms", disease_type |-> "disease",
     disease_semantic_type |-> "Disease", score |-> score,
     year_initial |-> "2001", year_final |-> None, ei |-> "1.0", el |-> NaN]
location(name, sub) == [location |-> name, loc_identifier |-> "SL-1", subcellular_loc |-> sub]
go_process(name) == [go_name |-> name, go_id |-> "GO:1"]
reactome(name, id) == [pathway_name |-> name, pathway_id |-> id]
chembl(name, relation) == [drug_name |-> name, chembl_id |-> "CHEMBL1", relation |-> relation]
ot_disease(name) == [disease_name |-> name, disease_id |-> "EFO_1", therapeutic_areas |-> "TA1"]
wikipathway(label, count) == [pathwayLabel |-> label, pathwayId |-> "WP1", pathwayGeneCount |-> count]
minerva(label) == [pathwayLabel |-> label, pathwayId |-> "MIN1", pathwayGeneCount |-> "7"]
molmedb(key, smiles, chebi) ==
    [label |-> "M1", molmedb_id |-> "MM1", InChIKey |-> key, SMILES |-> smiles,
     pubchem_compound_id |-> None, chebi_id |-> chebi, drugbank_id |-> NaN,
     source_doi |-> "doi1", source_pmid |-> None]
bgee(name, stage, confidence) ==
    [anatomical_entity_name |-> name, anatomical_entity_id |-> "UBERON:1",
     developmental_stage_id |-> stage, developmental_stage_name |-> None,
     expression_level |-> "9.5", confidence_level |-> confidence]
stringdb(link, score) == [stringdb_link_to |-> link, score |-> score]
drug_diseases(umls) == [umls |-> umls, disease_name |-> "treated disease"]

\* The records a cell of each annotation column may hold.
Records(c) ==
    CASE c = "DisGeNET" -> {disgenet("D1", "0.8"), disgenet("D1", "0.5"), disgenet(None, "0.8")}
      [] c = "OpenTargets_Location" -> {location("L1", "S1"), location(NaN, "S1")}
      [] c = "GO_Process" -> {go_process("GO1"), go_process(None), go_process(NaN)}
      [] c = "Reactome_Pathways" -> {reactome("P1", "R-HSA-1"), reactome("P1", None)}
      [] c = "ChEMBL_Drugs" ->
            {chembl("DR1", "inhibits"), chembl("DR1", None), chembl("G1", "inhibits")}
      [] c = "OpenTargets_Diseases" -> {ot_disease("D1"), ot_disease(None)}
      [] c = "WikiPathways" ->
            {wikipathway("P1", "10"), wikipathway("P1", None), wikipathway(None, "10")}
      [] c = "MINERVA" -> {minerva("P1"), minerva(NaN)}
      [] c = "transporter_inhibitor" ->
            {molmedb("K1", "CCO", None), molmedb("K1", None, "CHEBI:1"),
             molmedb(None, "CCO", None)}
      [] c = "Bgee" -> {bgee("A1", "S1", None), bgee("A1", None, "high"), bgee(None, "S1", None)}
      [] c = "stringdb" -> {stringdb("G1", "0.6"), stringdb("G2", "0.6"), stringdb("G2", "0.9")}
      [] c = "drug_diseases" ->
            {drug_diseases("U1"), drug_diseases("D1"), drug_diseases("DR1")}

\* func_dict, in insertion order.
RegistryKeys ==
    <<"DisGeNET", "OpenTargets_Location", "GO_Process", "Reactome_Pathways",
      "ChEMBL_Drugs", "OpenTargets_Diseases", "WikiPathways", "MINERVA",
      "transporter_inhibitor", "Bgee">>

NKeys == Len(RegistryKeys)

AnnotationColumns == {RegistryKeys[k] : k \in 1..NKeys} \cup {"stringdb", "drug_diseases"}

\* Columns holding one scalar per row.
ScalarColumns == {"identifier", "target", "target.source", "padj_dea", "comment"}

BaseColumns == {"identifier", "target", "target.source"}

\* The columns a table may have beside the base ones.
ColumnSets ==
    {{}} \cup {{c} : c \in AnnotationColumns \cup {"padj_dea", "comment"}}
    \cup {{"DisGeNET", "OpenTargets_Diseases"}, {"WikiPathways", "MINERVA"},
          {"ChEMBL_Drugs", "drug_diseases"}, {"DisGeNET", "drug_diseases"},
          {"stringdb", "drug_diseases"}, {"WikiPathways", "stringdb"}}

Lists(S) == UNION {[1..n -> S] : n \in 0..MaxRecs}

Values(c) ==
    CASE c = "padj_dea" -> {"1.5", NaN}
      [] c = "comment" -> {"free text"}
      [] OTHER -> {ListCell(l) : l \in Lists(Records(c))}
                  \cup {NonListCell(k) : k \in NonListKinds}

CellMaps(cs) == {f \in [cs -> UNION {Values(c) : c \in cs}] : \A c \in cs : f[c] \in Values(c)}

Identifiers == <<"G1", "G2", "G3">>

\* The first row is G1, and row k is one of the first k identifiers.
IdSeqs(n) == {s \in [1..n -> {Identifiers[k] : k \in 1..Len(Identifiers)}] :
                 \A i \in 1..n : \E k \in 1..i : k <= Len(Identifiers) /\ s[i] = Identifiers[k]}

TargetOf(id) == CASE id = "G1" -> "ENSG1" [] id = "G2" -> "ENSG2" [] OTHER -> "ENSG3"

MkRow(id, cells) ==
    ("identifier" :> id) @@ ("target" :> TargetOf(id)) @@ ("target.source" :> "Ensembl")
    @@ cells

Tables(cs, n) ==
    {[columns |-> BaseColumns \cup cs, rows |-> [i \in 1..n |-> MkRow(ids[i], cm[i])]] :
        ids \in IdSeqs(n), cm \in [1..n -> CellMaps(cs)]}

\* drug_disease=None, or a table of identifier and drug_diseases.
NoTable == [given |-> FALSE, columns |-> {}, rows |-> <<>>]

DrugDiseaseTables(n) ==
    {[given |-> TRUE, columns |-> {"identifier", "drug_diseases"},
      rows |-> [i \in 1..n |-> ("identifier" :> ids[i]) @@ ("drug_diseases" :> cells[i])]] :
        ids \in [1..n -> {"G1", "G3"}], cells \in [1..n -> Values("drug_diseases")]}

----------------------------------------------------------------------------
(* generate_networkx_graph *)

\* c.endswith("_dea") and c[:-4], on the column names of the model.
EndsWithDea(c) == c \in {"padj_dea"}
StripSuffix(c) == CASE c = "padj_dea" -> "padj" [] OTHER -> c

dea_columns_of(df) == {c \in df.columns : EndsWithDea(c)}

\* (faulty variant) labels and id take each other's value.
gene_node_attrs_swapped(r, dea_columns) ==
    [k \in {StripSuffix(c) : c \in dea_columns} |->
        r[CHOOSE c \in dea_columns : StripSuffix(c) = k]]
    @@ (r["target.source"] :> r["target"])
    @@ [source |-> "BridgeDB", labels |-> r["target"], id |-> r["identifier"],
        node_type |-> "Gene"]

\* The dict literal, its last key row["target.source"], then one entry per
\* differential-expression column.
gene_node_attrs_of(r, dea_columns) ==
    [k \in {StripSuffix(c) : c \in dea_columns} |->
        r[CHOOSE c \in dea_columns : StripSuffix(c) = k]]
    @@ (r["target.source"] :> r["target"])
    @@ [source |-> "BridgeDB", labels |-> r["identifier"], id |-> r["target"],
        node_type |-> "Gene"]

\* json.loads(json.dumps(cell)): a list stays a list of the same records,
\* None stays None (null), a NaN float stays a float (NaN), a string a string
\* and a mapping a mapping.
json_roundtrip(cell) ==
    CASE cell.kind = "list" -> ListCell(cell.items)
      [] OTHER -> NonListCell(cell.kind)

\* if not isinstance(annot_list, list): annot_list = []
annot_list_of(cell) ==
    LET annot_list == json_roundtrip(cell)
    IN  IF annot_list.kind # "list" THEN <<>> ELSE annot_list.items

func_dict(annot_key, graph, label, annot_list) ==
    CASE annot_key = "DisGeNET" -> add_disgenet_disease_subgraph(graph, label, annot_list)
      [] annot_key = "OpenTargets_Location" ->
            add_opentargets_location_subgraph(graph, label, annot_list)
      [] annot_key = "GO_Process" -> add_opentargets_go_subgraph(graph, label, annot_list)
      [] annot_key = "Reactome_Pathways" ->
            add_opentargets_pathway_subgraph(graph, label, annot_list)
      [] annot_key = "ChEMBL_Drugs" -> add_opentargets_drug_subgraph(graph, label, annot_list)
      [] annot_key = "OpenTargets_Diseases" ->
            add_opentargets_disease_subgraph(graph, label, annot_list)
      [] annot_key = "WikiPathways" -> add_wikipathways_subgraph(graph, label, annot_list)
      [] annot_key = "MINERVA" -> add_minerva_subgraph(graph, label, annot_list)
      [] annot_key = "transporter_inhibitor" ->
            add_molmedb_gene_inhibitor(graph, label, annot_list)
      [] annot_key = "Bgee" -> add_bgee_subgraph(graph, label, annot_list)

\* The next key of func_dict, from position k on, that is a column of the row
\* (NKeys + 1 when there is none).
NextKey(r, k) ==
    LET found == {j \in k..NKeys : RegistryKeys[j] \in DOMAIN r}
    IN  IF found = {} THEN NKeys + 1 ELSE CHOOSE j \in found : \A j2 \in found : j <= j2

\* The interaction pass on one row: only None becomes the empty list, and
\* anything else that is not a list fails in the builder's loop (a float is
\* not iterable; the items of a string or of a mapping are strings, which
\* ppi["score"] cannot index).  The gene label is whatever the main loop left.
ppi_row(graph, label, r) ==
    LET ppi_list == json_roundtrip(r["stringdb"])
    IN  IF ppi_list.kind = "None" THEN add_ppi_subgraph(graph, label, <<>>)
        ELSE IF ppi_list.kind = "list" THEN add_ppi_subgraph(graph, label, ppi_list.items)
        ELSE Raise(Ok(graph), "TypeError")

\* pd.concat([fuse_df, drug_disease[['identifier', 'drug_diseases']]],
\* ignore_index=True): the rows of both, each over the union of the columns,
\* NaN where a table has no such column.
Fill(c) == IF c \in ScalarColumns THEN NaN ELSE NonListCell("NaN")

concat(df, dd) ==
    LET columns == df.columns \cup {"identifier", "drug_diseases"}
        widen(r) == [c \in columns |-> IF c \in DOMAIN r THEN r[c] ELSE Fill(c)]
    IN  [columns |-> columns,
         rows |-> [i \in 1..(Len(df.rows) + Len(dd.rows)) |->
                     IF i <= Len(df.rows) THEN widen(df.rows[i])
                     ELSE widen(dd.rows[i - Len(df.rows)])]]

\* The drug-disease pass on one row: only a float (NaN) becomes the empty
\* list; None is not iterable, and the items of a string or of a mapping are
\* strings, which ddi["umls"] cannot index.
drug_disease_row(graph, r) ==
    LET gene_node_label_2 == r["identifier"]
        ddi_list == json_roundtrip(r["drug_diseases"])
    IN  IF ddi_list.kind = "NaN" THEN add_drug_disease_subgraph(graph, gene_node_label_2, <<>>)
        ELSE IF ddi_list.kind = "list"
             THEN add_drug_disease_subgraph(graph, gene_node_label_2, ddi_list.items)
        ELSE Raise(Ok(graph), "TypeError")

\* One node of the first finalization loop: every entry of attr_dict that is
\* not None becomes an attribute of the node, and attr_dict is deleted.
flatten_node(attrs) ==
    LET attr_dict == attrs["attr_dict"]
        copied == [k \in {k \in DOMAIN attr_dict : attr_dict[k] # None} |-> attr_dict[k]]
        merged == copied @@ attrs
    IN  [k \in DOMAIN merged \ {"attr_dict"} |-> merged[k]]

\* for node in g.nodes(): a node without attr_dict is a KeyError, which
\* leaves the nodes before it flattened.
RECURSIVE finalize_nodes(_, _)
finalize_nodes(R, todo) ==
    IF todo = <<>> \/ R.err # NoError THEN R
    ELSE LET node == Head(todo)
         IN  IF "attr_dict" \notin DOMAIN R.g.node[node] THEN Raise(R, "KeyError")
             ELSE finalize_nodes([R EXCEPT !.g.node[node] = flatten_node(@)], Tail(todo))

\* (faulty variant) edge_hash is copied like any other entry.
flatten_edge_with_hash(data) ==
    IF "attr_dict" \notin DOMAIN data THEN data
    ELSE LET attr_dict == data["attr_dict"]
             copied == [x \in {x \in DOMAIN attr_dict :
                                  x = "edge_hash" \/ attr_dict[x] # None} |-> attr_dict[x]]
             merged == copied @@ data
         IN  [k \in DOMAIN merged \ {"attr_dict"} |-> merged[k]]

\* One edge of the second loop: entries that are not None, edge_hash
\* excepted, become attributes of the edge, and attr_dict is deleted; an edge
\* without attr_dict is left alone.
flatten_edge(data) ==
    IF "attr_dict" \notin DOMAIN data THEN data
    ELSE LET attr_dict == data["attr_dict"]
             copied == [x \in {x \in DOMAIN attr_dict :
                                  x # "edge_hash" /\ attr_dict[x] # None} |-> attr_dict[x]]
             merged == copied @@ data
         IN  [k \in DOMAIN merged \ {"attr_dict"} |-> merged[k]]

finalize_edges(graph) ==
    [graph EXCEPT !.adj = [e \in DOMAIN graph.adj |->
                              [k \in DOMAIN graph.adj[e] |-> flatten_edge(graph.adj[e][k])]]]

----------------------------------------------------------------------------
(* The state machine: pc is the place in generate_networkx_graph, idx the   *)
(* number of rows the current loop has done, ak the position in func_dict   *)
(* within the current row, err the exception that ended the call.           *)

Init ==
    /\ \E cs \in ColumnSets, n \in 0..MaxRows, m \in 0..(MaxDdRows + 1) :
          /\ n * Cardinality(cs) + (IF m = 0 THEN 0 ELSE m - 1) <= MaxCells
          /\ fuse_df \in Tables(cs, n)
          /\ drug_disease \in (IF m = 0 THEN {NoTable} ELSE DrugDiseaseTables(m - 1))
    /\ g = EmptyGraph
    /\ pc = "main"
    /\ idx = 0
    /\ row = <<>>
    /\ gene_node_label = Unbound
    /\ ak = 0
    /\ err = NoError

\* An exception leaves the call; otherwise control goes on to next_pc.
Continue(R, next_pc) ==
    /\ g' = R.g
    /\ err' = R.err
    /\ pc' = IF R.err # NoError THEN "raised" ELSE next_pc

\* for _i, row in fuse_df.iterrows(): the gene node of the next row.
MainRow ==
    /\ pc = "main"
    /\ idx < Len(fuse_df.rows)
    /\ LET r == fuse_df.rows[idx + 1]
           R == add_node(Ok(g), r["identifier"],
                         gene_node_attrs_of(r, dea_columns_of(fuse_df)))
           k == NextKey(r, 1)
       IN  /\ row' = r
           /\ gene_node_label' = r["identifier"]
           /\ Continue(R, IF k <= NKeys THEN "keys" ELSE "main")
           /\ ak' = k
           /\ idx' = IF k <= NKeys THEN idx ELSE idx + 1
    /\ UNCHANGED <<fuse_df, drug_disease>>

\* for annot_key in func_dict: if annot_key in row: the builder of the next
\* registry column the row has.
Dispatch ==
    /\ pc = "keys"
    /\ LET annot_key == RegistryKeys[ak]
           R == func_dict(annot_key, g, gene_node_label, annot_list_of(row[annot_key]))
           k == NextKey(row, ak + 1)
       IN  /\ Continue(R, IF k <= NKeys THEN "keys" ELSE "main")
           /\ ak' = k
           /\ idx' = IF k <= NKeys THEN idx ELSE idx + 1
    /\ UNCHANGED <<fuse_df, drug_disease, row, gene_node_label>>

\* if "stringdb" in row: row is the last row of the main loop, and is not
\* bound at all when the table has no row.
InteractionCheck ==
    /\ pc = "main"
    /\ idx = Len(fuse_df.rows)
    /\ IF Len(fuse_df.rows) = 0
       THEN pc' = "raised" /\ err' = "UnboundLocalError"
       ELSE pc' = (IF "stringdb" \in DOMAIN row THEN "ppi" ELSE "drug_disease")
            /\ err' = err
    /\ idx' = 0
    /\ UNCHANGED <<fuse_df, drug_disease, g, row, gene_node_label, ak>>

\* for _i, row in fuse_df.iterrows(): add_ppi_subgraph(g, gene_node_label, ppi_list)
InteractionRow ==
    /\ pc = "ppi"
    /\ LET r == fuse_df.rows[idx + 1]
       IN  /\ row' = r
           /\ Continue(ppi_row(g, gene_node_label, r),
                       IF idx + 1 < Len(fuse_df.rows) THEN "ppi" ELSE "drug_disease")
    /\ idx' = idx + 1
    /\ UNCHANGED <<fuse_df, drug_disease, gene_node_label, ak>>

\* if drug_disease is not None: concat, then if "drug_diseases" in row, with
\* row still a row of the table before the concat.
DrugDiseaseCheck ==
    /\ pc = "drug_disease"
    /\ IF drug_disease.given
       THEN /\ fuse_df' = concat(fuse_df, drug_disease)
            /\ pc' = IF "drug_diseases" \in DOMAIN row THEN "treated" ELSE "finalize_nodes"
       ELSE /\ fuse_df' = fuse_df
            /\ pc' = "finalize_nodes"
    /\ idx' = 0
    /\ UNCHANGED <<drug_disease, g, row, gene_node_label, ak, err>>

\* for _i, row in fuse_df.iterrows(): add_drug_disease_subgraph(g, gene_node_label_2, ddi_list)
DrugDiseaseRow ==
    /\ pc = "treated"
    /\ LET r == fuse_df.rows[idx + 1]
       IN  /\ row' = r
           /\ Continue(drug_disease_row(g, r),
                       IF idx + 1 < Len(fuse_df.rows) THEN "treated" ELSE "finalize_nodes")
    /\ idx' = idx + 1
    /\ UNCHANGED <<fuse_df, drug_disease, gene_node_label, ak>>

\* The loop over g.nodes().
FinalizeNodes ==
    /\ pc = "finalize_nodes"
    /\ Continue(finalize_nodes(Ok(g), g.order), "finalize_edges")
    /\ UNCHANGED <<fuse_df, drug_disease, idx, row, gene_node_label, ak>>

\* The loop over g.edges(keys=True), and return g.
FinalizeEdges ==
    /\ pc = "finalize_edges"
    /\ g' = finalize_edges(g)
    /\ pc' = "done"
    /\ UNCHANGED <<fuse_df, drug_disease, idx, row, gene_node_label, ak, err>>

Next ==
    \/ MainRow
    \/ Dispatch
    \/ InteractionCheck
    \/ InteractionRow
    \/ DrugDiseaseCheck
    \/ DrugDiseaseRow
    \/ FinalizeNodes
    \/ FinalizeEdges

Spec == Init /\ [][Next]_vars

----------------------------------------------------------------------------
(* The whole call as one function of its arguments, composed of the same   *)
(* steps as the actions, to compare the results of two calls.              *)

RECURSIVE keys_loop(_, _, _, _)
keys_loop(R, label, r, k) ==
    IF R.err # NoError \/ k > NKeys THEN R
    ELSE keys_loop(func_dict(RegistryKeys[k], R.g, label, annot_list_of(r[RegistryKeys[k]])),
                   label, r, NextKey(r, k + 1))

RECURSIVE main_loop(_, _, _)
main_loop(R, df, i) ==
    IF R.err # NoError \/ i > Len(df.rows) THEN R
    ELSE LET r == df.rows[i]
             R1 == add_node(R, r["identifier"], gene_node_attrs_of(r, dea_columns_of(df)))
         IN  main_loop(keys_loop(R1, r["identifier"], r, NextKey(r, 1)), df, i + 1)

RECURSIVE ppi_loop(_, _, _, _)
ppi_loop(R, label, df, i) ==
    IF R.err # NoError \/ i > Len(df.rows) THEN R
    ELSE ppi_loop(ppi_row(R.g, label, df.rows[i]), label, df, i + 1)

RECURSIVE drug_disease_loop(_, _, _)
drug_disease_loop(R, df, i) ==
    IF R.err # NoError \/ i > Len(df.rows) THEN R
    ELSE drug_disease_loop(drug_disease_row(R.g, df.rows[i]), df, i + 1)

generate_networkx_graph(df, dd) ==
    LET n == Len(df.rows)
        R1 == main_loop(Ok(EmptyGraph), df, 1)
        R2 == IF R1.err # NoError THEN R1
              ELSE IF n = 0 THEN Raise(R1, "UnboundLocalError")
              ELSE IF "stringdb" \in DOMAIN df.rows[n]
                   THEN ppi_loop(R1, df.rows[n]["identifier"], df, 1)
                   ELSE R1
        R3 == IF R2.err # NoError \/ ~dd.given \/ "drug_diseases" \notin DOMAIN df.rows[n]
              THEN R2
              ELSE drug_disease_loop(R2, concat(df, dd), 1)
        R4 == finalize_nodes(R3, R3.g.order)
    IN  IF R4.err # NoError THEN R4 ELSE Ok(finalize_edges(R4.g))

\* The stepwise run and the function agree on what a call without a
\* drug-disease table returns or raises.
RunIsTheFunction ==
    (pc \in {"done", "raised"} /\ ~drug_disease.given) =>
        LET R == generate_networkx_graph(fuse_df, drug_disease)
        IN  R.err = err /\ (err = NoError => R.g = g)

----------------------------------------------------------------------------
(* Vocabulary of the properties *)

Building == pc \in {"main", "keys", "ppi", "drug_disease", "treated", "finalize_nodes"}

\* The edges as (source node, target node, attributes), keys left out.
Edges(graph) ==
    UNION {{<<e[1], e[2], graph.adj[e][k]>> : k \in DOMAIN graph.adj[e]} : e \in DOMAIN graph.adj}

Nodes(graph) == DOMAIN graph.node

\* The records of a cell when it holds a list, none otherwise.
RecordsOf(cell) == IF cell.kind = "list" THEN cell.items ELSE <<>>

DistinctIdentifiers(df) ==
    \A i, j \in DOMAIN df.rows : df.rows[i]["identifier"] = df.rows[j]["identifier"] => i = j

----------------------------------------------------------------------------
(* C1 *)

\* C1: while the graph is being built (main pass, interaction pass,
\* drug-disease pass), no two parallel edges of an ordered node pair carry the
\* same edge_hash.
C1_UniqueEdgeIdentity ==
    Building =>
        \A e \in DOMAIN g.adj : \A j, k \in DOMAIN g.adj[e] :
            g.adj[e][j]["attr_dict"]["edge_hash"] = g.adj[e][k]["attr_dict"]["edge_hash"]
                => j = k

\* Two rows of the same gene with the same records have been built, and a
\* node pair is joined by two parallel edges (of different identities).
C1_Witness ==
    /\ pc = "main"
    /\ idx = 2
    /\ fuse_df.rows[1]["identifier"] = fuse_df.rows[2]["identifier"]
    /\ \E c \in DOMAIN row \cap AnnotationColumns :
          /\ fuse_df.rows[1][c] = fuse_df.rows[2][c]
          /\ Len(RecordsOf(row[c])) = 2
    /\ \E e \in DOMAIN g.adj : Len(g.adj[e]) >= 2

----------------------------------------------------------------------------
(* C2 *)

\* The attributes a node shows: the entries of attr_dict that finalization
\* will copy while the node is wrapped, its own attributes once flattened.
Shown(attrs) ==
    IF "attr_dict" \in DOMAIN attrs
    THEN {k \in DOMAIN attrs["attr_dict"] : attrs["attr_dict"][k] # None}
    ELSE DOMAIN attrs

Value(attrs, k) == IF "attr_dict" \in DOMAIN attrs THEN attrs["attr_dict"][k] ELSE attrs[k]

\* C2: node upsert is a merge, so no step erases an attribute a node already
\* has with a non-null value: whatever is upserted later (other keys, or a
\* null for this key), the node keeps the key.
C2_UpsertMerges ==
    [][\A n \in DOMAIN g.node :
          \A k \in Shown(g.node[n]) :
              ~isna(Value(g.node[n], k)) => k \in Shown(g'.node[n])]_vars

----------------------------------------------------------------------------
(* C3 *)

\* The primary identifying field of each registry column's records.
PrimaryField(c) ==
    CASE c = "DisGeNET" -> "disease_name"
      [] c = "OpenTargets_Diseases" -> "disease_name"
      [] c = "OpenTargets_Location" -> "location"
      [] c = "GO_Process" -> "go_name"
      [] c = "Reactome_Pathways" -> "pathway_id"
      [] c = "WikiPathways" -> "pathwayLabel"
      [] c = "MINERVA" -> "pathwayLabel"
      [] c = "ChEMBL_Drugs" -> "relation"
      [] c = "transporter_inhibitor" -> "InChIKey"
      [] c = "Bgee" -> "anatomical_entity_name"

\* C3: a builder given only records whose primary identifying field is null
\* raises nothing and leaves the node set and the edge set as they were.
C3_NullPrimarySkipped ==
    [][(/\ pc = "keys"
        /\ \A i \in DOMAIN RecordsOf(row[RegistryKeys[ak]]) :
              isna(row[RegistryKeys[ak]].items[i][PrimaryField(RegistryKeys[ak])]))
       => (/\ pc' # "raised"
           /\ Nodes(g') = Nodes(g)
           /\ Edges(g') = Edges(g))]_vars

----------------------------------------------------------------------------
(* C4 *)

\* C4: in a returned graph no node attribute mapping has the key attr_dict
\* and no edge attribute mapping has the key attr_dict or edge_hash.
C4_NoInternalKeys ==
    pc = "done" =>
        /\ \A n \in DOMAIN g.node : "attr_dict" \notin DOMAIN g.node[n]
        /\ \A e \in DOMAIN g.adj : \A k \in DOMAIN g.adj[e] :
              DOMAIN g.adj[e][k] \cap {"attr_dict", "edge_hash"} = {}

\* A returned graph with annotation nodes and parallel edges.
C4_Witness ==
    /\ pc = "done"
    /\ Cardinality(DOMAIN g.node) >= 2
    /\ \E e \in DOMAIN g.adj : Len(g.adj[e]) >= 2


----------------------------------------------------------------------------
(* C5 *)

\* The list without its j-th record.
RemoveAt(L, j) == [i \in 1..(Len(L) - 1) |-> IF i < j THEN L[i] ELSE L[i + 1]]

\* What a builder did with list L, done once more with L, changes nothing;
\* and with the later of two equal records of L left out, it builds the same
\* edges (the record's second occurrence added none).
IdempotentOn(Builder(_, _, _), before, after, label, L) ==
    /\ Builder(after, label, L) = Ok(after)
    /\ \A i, j \in DOMAIN L :
          (i < j /\ L[i] = L[j]) => Builder(before, label, RemoveAt(L, j)).g.adj = after.adj

\* C5: edge insertion is idempotent: whenever a builder has run on a gene
\* label and a record list without raising, running it again on the same
\* label and list leaves the graph as it is, and a record that is in the list
\* twice has yielded its edge once.
C5_IdempotentInsertion ==
    [][/\ (pc = "keys" /\ pc' # "raised") =>
              LET key == RegistryKeys[ak]
                  Builder(graph, label, L) == func_dict(key, graph, label, L)
              IN  IdempotentOn(Builder, g, g', gene_node_label, annot_list_of(row[key]))
       /\ (pc = "ppi" /\ pc' # "raised") =>
              IdempotentOn(add_ppi_subgraph, g, g', gene_node_label,
                           RecordsOf(fuse_df.rows[idx + 1]["stringdb"]))
       /\ (pc = "treated" /\ pc' # "raised") =>
              IdempotentOn(add_drug_disease_subgraph, g, g',
                           fuse_df.rows[idx + 1]["identifier"],
                           RecordsOf(fuse_df.rows[idx + 1]["drug_diseases"]))]_vars

\* A builder has met the same record twice in the list of the row's cell,
\* and the gene has one edge to the record's node.
C5_Witness ==
    /\ pc = "main"
    /\ idx >= 1
    /\ \E c \in DOMAIN row \cap AnnotationColumns :
          /\ Len(RecordsOf(row[c])) = 2
          /\ row[c].items[1] = row[c].items[2]
    /\ \E e \in DOMAIN g.adj : e[1] = gene_node_label /\ Len(g.adj[e]) = 1

----------------------------------------------------------------------------
(* C6 *)

\* C6: in the graph built from a table with a stringdb column, every record
\* of every row's interaction list has its interacts_with edge from the
\* row's identifier to the linked gene with the record's score, and every
\* interacts_with edge starts at the identifier of a row holding its record.
C6_InteractionEdges ==
    (pc = "done" /\ "stringdb" \in fuse_df.columns) =>
        /\ \A i \in DOMAIN fuse_df.rows :
              \A j \in DOMAIN RecordsOf(fuse_df.rows[i]["stringdb"]) :
                  LET p == fuse_df.rows[i]["stringdb"].items[j]
                  IN  \E e \in Edges(g) :
                          /\ e[1] = fuse_df.rows[i]["identifier"]
                          /\ e[2] = p["stringdb_link_to"]
                          /\ e[3]["label"] = "interacts_with"
                          /\ e[3]["score"] = p["score"]
        /\ \A e \in Edges(g) :
              e[3]["label"] = "interacts_with" =>
                  \E i \in DOMAIN fuse_df.rows :
                      /\ fuse_df.rows[i]["identifier"] = e[1]
                      /\ \E j \in DOMAIN RecordsOf(fuse_df.rows[i]["stringdb"]) :
                            LET p == fuse_df.rows[i]["stringdb"].items[j]
                            IN  p["stringdb_link_to"] = e[2] /\ p["score"] = e[3]["score"]

----------------------------------------------------------------------------
(* C7 *)

\* C7: when a drug-disease table is supplied, then once the passes are over
\* (finalization is about to begin) every record of every row of that table
\* has an edge from its disease identifier to the row's identifier.
C7_DrugDiseasePass ==
    (pc = "finalize_nodes" /\ drug_disease.given) =>
        \A i \in DOMAIN drug_disease.rows :
            \A j \in DOMAIN RecordsOf(drug_disease.rows[i]["drug_diseases"]) :
                has_edge(g, drug_disease.rows[i]["drug_diseases"].items[j]["umls"],
                         drug_disease.rows[i]["identifier"])

----------------------------------------------------------------------------
(* C8 *)

\* C8: a cell that is not a list, in a registry column, the stringdb column
\* or the drug_diseases column, raises nothing and leaves the graph as it is.
C8_NonListCellIsEmpty ==
    [][/\ (pc = "keys" /\ row[RegistryKeys[ak]].kind # "list") =>
              (pc' # "raised" /\ g' = g)
       /\ (pc = "ppi" /\ fuse_df.rows[idx + 1]["stringdb"].kind # "list") =>
              (pc' # "raised" /\ g' = g)
       /\ (pc = "treated" /\ fuse_df.rows[idx + 1]["drug_diseases"].kind # "list") =>
              (pc' # "raised" /\ g' = g)]_vars

----------------------------------------------------------------------------
(* C9 *)

RowOrders(n) == {p \in [1..n -> 1..n] : \A i, j \in 1..n : p[i] = p[j] => i = j}

Permuted(df, p) == [df EXCEPT !.rows = [i \in DOMAIN df.rows |-> df.rows[p[i]]]]

\* What the main pass builds from row i alone.
AloneNodes(df, i) ==
    main_loop(Ok(EmptyGraph), [df EXCEPT !.rows = <<df.rows[i]>>], 1).g.node

\* No cross-row attribute conflict: a node two rows both upsert gets the same
\* attributes from each.
NoCrossRowConflict(df) ==
    \A i, j \in DOMAIN df.rows :
        \A n \in DOMAIN AloneNodes(df, i) \cap DOMAIN AloneNodes(df, j) :
            AloneNodes(df, i)[n] = AloneNodes(df, j)[n]

\* C9: the graph built from a table without cross-row attribute conflicts has
\* the node set and the edge set of the graph built from any permutation of
\* its rows.
C9_RowOrderIndependent ==
    (pc = "done" /\ ~drug_disease.given /\ NoCrossRowConflict(fuse_df)) =>
        \A p \in RowOrders(Len(fuse_df.rows)) :
            LET R == generate_networkx_graph(Permuted(fuse_df, p), drug_disease)
            IN  /\ R.err = NoError
                /\ Nodes(R.g) = Nodes(g)
                /\ Edges(R.g) = Edges(g)

----------------------------------------------------------------------------
(* C10 *)

PathwayColumns == {"Reactome_Pathways", "WikiPathways", "MINERVA"}

PathwayName(c, rec) ==
    IF c = "Reactome_Pathways" THEN rec["pathway_name"] ELSE rec["pathwayLabel"]

PathwaySource(c) == IF c = "Reactome_Pathways" THEN "OpenTargets" ELSE c

\* The pathway names the records of column c give.
PathwayNames(df, c) ==
    {name \in UNION {{PathwayName(c, RecordsOf(df.rows[i][c])[j]) :
                        j \in DOMAIN RecordsOf(df.rows[i][c])} : i \in DOMAIN df.rows} :
        ~isna(name)}

\* The rows holding, in column c, a record of that pathway name.
Referencing(df, c, name) ==
    {i \in DOMAIN df.rows :
        \E j \in DOMAIN RecordsOf(df.rows[i][c]) :
            PathwayName(c, RecordsOf(df.rows[i][c])[j]) = name}

\* The same, counting only records whose primary identifying field is set.
ReferencingValidly(df, c, name) ==
    {i \in DOMAIN df.rows :
        \E j \in DOMAIN RecordsOf(df.rows[i][c]) :
            /\ PathwayName(c, RecordsOf(df.rows[i][c])[j]) = name
            /\ ~isna(RecordsOf(df.rows[i][c])[j][PrimaryField(c)])}

\* The part_of_pathway edges into a node, as (source node, key).
PathwayEdgesInto(graph, name) ==
    UNION {{<<e[1], k>> : k \in {k \in DOMAIN graph.adj[e] :
                                    graph.adj[e][k]["label"] = "part_of_pathway"}} :
             e \in {e \in DOMAIN graph.adj : e[2] = name}}

\* C10 as stated: in the built graph, a pathway name that the rows (of
\* distinct identifiers) reference in one pathway column is a node with as
\* many part_of_pathway edges into it as rows reference it, one from each.
C10_SharedPathwayNode ==
    (pc = "done" /\ DistinctIdentifiers(fuse_df)) =>
        \A c \in PathwayColumns \cap fuse_df.columns :
            \A name \in PathwayNames(fuse_df, c) :
                LET S == Referencing(fuse_df, c, name)
                IN  /\ name \in Nodes(g)
                    /\ Cardinality(PathwayEdgesInto(g, name)) = Cardinality(S)
                    /\ \A i \in S : \E e \in PathwayEdgesInto(g, name) :
                          e[1] = fuse_df.rows[i]["identifier"]

\* The part_of_pathway edges of one source from node u to node v.
PathwayEdgesOf(graph, source, u, v) ==
    {k \in DOMAIN get_edge_data(graph, u, v) :
        /\ get_edge_data(graph, u, v)[k]["label"] = "part_of_pathway"
        /\ get_edge_data(graph, u, v)[k]["source"] = source}

\* C10 as amended: a pathway name that n rows of distinct identifiers
\* reference in one pathway column, by records whose primary identifying
\* field is set, is a node, and each of the n genes has exactly one
\* part_of_pathway edge of that column's source to it.
C10_SharedPathwayNodeOfValidRecords ==
    (pc = "done" /\ DistinctIdentifiers(fuse_df)) =>
        \A c \in PathwayColumns \cap fuse_df.columns :
            \A name \in PathwayNames(fuse_df, c) :
                LET S == ReferencingValidly(fuse_df, c, name)
                IN  S # {} =>
                        /\ name \in Nodes(g)
                        /\ \A i \in S :
                              Cardinality(PathwayEdgesOf(g, PathwaySource(c),
                                              fuse_df.rows[i]["identifier"], name)) = 1

\* Two rows of different genes, each with a valid record of one pathway name
\* in the same column, have been built into a returned graph.
C10_Witness ==
    /\ pc = "done"
    /\ DistinctIdentifiers(fuse_df)
    /\ \E c \in PathwayColumns \cap fuse_df.columns :
          \E name \in PathwayNames(fuse_df, c) :
              /\ Cardinality(ReferencingValidly(fuse_df, c, name)) = 2
              /\ Cardinality(PathwayEdgesInto(g, name)) = 2

----------------------------------------------------------------------------
(* C11 *)

\* The rows of the table the call was given: the concatenation appends the
\* rows of the drug-disease table to them.
MainRows ==
    IF drug_disease.given /\ pc \in {"treated", "finalize_nodes", "finalize_edges", "done"}
    THEN SubSeq(fuse_df.rows, 1, Len(fuse_df.rows) - Len(drug_disease.rows))
    ELSE fuse_df.rows

RowIdentifiers == {MainRows[i]["identifier"] : i \in DOMAIN MainRows}

NoAnnotationColumn(df) ==
    df.columns \cap ({RegistryKeys[k] : k \in 1..NKeys} \cup {"stringdb"}) = {}

\* C11: a table of at least one row with no registry column and no stringdb
\* column, and no drug-disease table: the call never raises, and the graph
\* it returns has the row identifiers as its nodes and no edge.
C11_GeneNodesOnly ==
    (Len(fuse_df.rows) >= 1 /\ NoAnnotationColumn(fuse_df) /\ ~drug_disease.given) =>
        /\ pc # "raised"
        /\ pc = "done" => (Nodes(g) = RowIdentifiers /\ Edges(g) = {})

\* Such a table, of two rows and with a column the registry does not know,
\* has been built and returned.
C11_Witness ==
    /\ pc = "done"
    /\ Len(fuse_df.rows) = 2
    /\ NoAnnotationColumn(fuse_df)
    /\ ~drug_disease.given
    /\ fuse_df.columns \ BaseColumns # {}
    /\ Nodes(g) = RowIdentifiers

----------------------------------------------------------------------------
(* C12 *)

DistinctRowIdentifiers ==
    \A i, j \in DOMAIN MainRows : MainRows[i]["identifier"] = MainRows[j]["identifier"] => i = j

\* The returned graph has the row's gene node as the main loop made it.
IsGeneNodeOf(graph, r) ==
    /\ r["identifier"] \in Nodes(graph)
    /\ {"node_type", "labels", "id"} \subseteq DOMAIN graph.node[r["identifier"]]
    /\ graph.node[r["identifier"]]["node_type"] = "Gene"
    /\ graph.node[r["identifier"]]["labels"] = r["identifier"]
    /\ graph.node[r["identifier"]]["id"] = r["target"]

\* C12 as stated: in the graph returned for rows of distinct identifiers,
\* whatever their annotation records, every row's identifier is a node of
\* node_type Gene, labels the identifier and id the row's target.
C12_GeneNodeAttributes ==
    (pc = "done" /\ DistinctRowIdentifiers) =>
        \A i \in DOMAIN MainRows : IsGeneNodeOf(g, MainRows[i])

\* The field of a record that is the label of its annotation node.
NodeLabelField(c) ==
    CASE c = "DisGeNET" -> "disease_name"
      [] c = "OpenTargets_Location" -> "location"
      [] c = "GO_Process" -> "go_name"
      [] c = "Reactome_Pathways" -> "pathway_name"
      [] c = "ChEMBL_Drugs" -> "drug_name"
      [] c = "OpenTargets_Diseases" -> "disease_name"
      [] c = "WikiPathways" -> "pathwayLabel"
      [] c = "MINERVA" -> "pathwayLabel"
      [] c = "transporter_inhibitor" -> "label"
      [] c = "Bgee" -> "anatomical_entity_name"

\* No record of a registry column names its annotation node as a row is named.
NoAnnotationNamedAsGene ==
    \A i \in DOMAIN MainRows :
        \A c \in DOMAIN MainRows[i] \cap {RegistryKeys[k] : k \in 1..NKeys} :
            \A j \in DOMAIN RecordsOf(MainRows[i][c]) :
                RecordsOf(MainRows[i][c])[j][NodeLabelField(c)] \notin RowIdentifiers

\* No differential-expression column and no identifier namespace is named as
\* one of the three attributes, which it would overwrite in the gene's dict.
NoAttributeShadowed ==
    \A i \in DOMAIN MainRows :
        ({StripSuffix(c) : c \in dea_columns_of(fuse_df)} \cup {MainRows[i]["target.source"]})
            \cap {"node_type", "labels", "id"} = {}

\* C12 as amended: the same, for tables in which no annotation record's node
\* label is the identifier of a row (and no column or namespace is named as
\* one of the three attributes).
C12_GeneNodeAttributesUnlessRenamed ==
    (pc = "done" /\ DistinctRowIdentifiers /\ NoAnnotationNamedAsGene
        /\ NoAttributeShadowed) =>
        \A i \in DOMAIN MainRows : IsGeneNodeOf(g, MainRows[i])

\* Two rows of different genes, one of them with an annotation that made a
\* node and an edge, have been built and returned.
C12_Witness ==
    /\ pc = "done"
    /\ DistinctRowIdentifiers
    /\ NoAnnotationNamedAsGene
    /\ Len(MainRows) = 2
    /\ Cardinality(Nodes(g)) >= 3
    /\ Edges(g) # {}

----------------------------------------------------------------------------
(* C13 *)

BgeeOptionalFields ==
    {"developmental_stage_id", "developmental_stage_name", "expression_level",
     "confidence_level"}

\* The records of the list that made a node and are the last of the list to
\* have written it.
LastWriters(L, field) ==
    {j \in DOMAIN L :
        /\ ~isna(L[j][field])
        /\ \A k \in DOMAIN L : k > j => L[k][field] # L[j][field]}

\* C13: the Bgee builder, given records with an anatomical entity name,
\* raises nothing, and the node of each record carries every optional field
\* with the record's value exactly when the record's value is not null.
C13_BgeeOptionalFields ==
    [][(pc = "keys" /\ RegistryKeys[ak] = "Bgee") =>
          LET L == annot_list_of(row["Bgee"])
          IN  (LastWriters(L, "anatomical_entity_name") # {}) =>
                  /\ pc' # "raised"
                  /\ \A j \in LastWriters(L, "anatomical_entity_name") :
                        LET written == g'.node[L[j]["anatomical_entity_name"]]["attr_dict"]
                        IN  \A f \in BgeeOptionalFields :
                                IF isna(L[j][f]) THEN f \notin DOMAIN written
                                ELSE f \in DOMAIN written /\ written[f] = L[j][f]]_vars

----------------------------------------------------------------------------
(* C14 *)

\* C14: no step of the interaction pass changes the node set, so the node
\* set after the pass is the node set after the main pass.
C14_InteractionPassAddsNoNode ==
    [][pc = "ppi" => Nodes(g') = Nodes(g)]_vars

----------------------------------------------------------------------------
(* C15 *)

\* The edges as (source node, target node, key).
EdgeKeys(graph) ==
    UNION {{<<e[1], e[2], k>> : k \in DOMAIN graph.adj[e]} : e \in DOMAIN graph.adj}

Assembling == pc \in {"main", "keys", "ppi", "drug_disease", "treated"}

Finalizing == pc \in {"finalize_nodes", "finalize_edges"}

\* C15: every step of the three passes keeps every node and every edge (with
\* its key and its attributes) and may add some; finalization begins only
\* when the passes are over, is never begun again, and its steps keep the
\* nodes and the edges (source, target, key) as they are.
C15_MonotoneThenFinalizedOnce ==
    [][/\ Assembling =>
              /\ Nodes(g) \subseteq Nodes(g')
              /\ Edges(g) \subseteq Edges(g')
              /\ EdgeKeys(g) \subseteq EdgeKeys(g')
       /\ Finalizing => (Nodes(g') = Nodes(g) /\ EdgeKeys(g') = EdgeKeys(g))
       /\ (pc # "finalize_nodes" /\ pc' = "finalize_nodes") =>
              /\ pc \in {"drug_disease", "treated"}
              /\ pc = "treated" => idx' = Len(fuse_df.rows)
       /\ (Finalizing \/ pc = "done") => pc' \in {"finalize_edges", "done", "raised"}]_vars

\* The main pass and the drug-disease pass have both added edges to the
\* graph, which has then been finalized and returned.
C15_Witness ==
    /\ pc = "done"
    /\ drug_disease.given
    /\ \E e \in Edges(g) : e[3]["label"] = "treated_with"
    /\ \E e \in Edges(g) : e[3]["label"] # "treated_with"
    /\ \A n \in Nodes(g) : "attr_dict" \notin DOMAIN g.node[n]

----------------------------------------------------------------------------
(* C16 *)

\* C16: when finalization begins every node has its attr_dict (which the
\* node loop reads of every node), the endpoints of the interaction edges and
\* of the drug-disease edges among them.
C16_EveryNodeHasAttrDict ==
    pc = "finalize_nodes" => \A n \in Nodes(g) : "attr_dict" \in DOMAIN g.node[n]

----------------------------------------------------------------------------
(* C17 *)

\* C17: the call on a table with no row does not raise, and without a
\* drug-disease table it returns the empty graph.
C17_ZeroRows ==
    (Len(MainRows) = 0) =>
        /\ pc # "raised"
        /\ (pc = "done" /\ ~drug_disease.given) => (Nodes(g) = {} /\ Edges(g) = {})

====
